---- MODULE Spec2Model ----
(***************************************************************************)
(* Model of the RAG agent proxy (src/agent/main.py): the tool-call         *)
(* validator, the tool-line sanitizer and the streaming path of            *)
(* /api/generate (generate.generate_stream).                               *)
(*                                                                         *)
(* Text is a sequence of indivisible fragments (strings).  The literal     *)
(* "TOOL " is the three fragments "TO", "OL", " ", so that a stream unit   *)
(* boundary can fall inside the prefix.  A tool name and a JSON payload    *)
(* are one fragment each.                                                  *)
(***************************************************************************)
EXTENDS Integers, Sequences, FiniteSets, TLC

VARIABLES pc, endKind, recvd, out, thinking_open, full_response_text,
          memory, ollama_response, status_ok, stream_session,
          emb, chk, val, rag, conc, san, plan, vdb, gen, ens

\* The state of one streaming request.
streamVars == <<pc, endKind, recvd, out, thinking_open, full_response_text,
                memory, ollama_response, status_ok, stream_session>>

\* The state of one call of get_embedding (emb), chunk_text (chk),
\* validate_tool_call (val), augment_prompt (rag), sanitize_tool_lines
\* (san) and add_document (vdb), of one request from execute_plan to the
\* stored answer (plan), of the requests streamed concurrently (conc), of
\* the two paths of generate on one reply (gen) and of the system prompt of
\* successive requests (ens).
callVars == <<emb, chk, val, rag, conc, san, plan, vdb, gen, ens>>

vars == <<pc, endKind, recvd, out, thinking_open, full_response_text,
          memory, ollama_response, status_ok, stream_session,
          emb, chk, val, rag, conc, san, plan, vdb, gen, ens>>

\* Number of lines the backend sends on one streaming request.
MaxUnits == 3

----------------------------------------------------------------------------
(* Constants of the program *)

THINK_TAG_START == "<think>"

THINK_TAG_END == "</think>"

SUPPORTED_TOOL_NAMES ==
  { <<"schematic.place_component">>, <<"schematic.move_component">>,
    <<"mock.selection_inspector">> }

\* The literal "TOOL " (5 characters, 3 fragments).
TOOL_PREFIX == <<"TO", "OL", " ">>

----------------------------------------------------------------------------
(* String helpers (Python str methods on fragment sequences) *)

IsSpace(c) == c \in {" ", "\n", "\t"}

RECURSIVE LStrip(_)
LStrip(s) == IF s # <<>> /\ IsSpace(Head(s)) THEN LStrip(Tail(s)) ELSE s

RECURSIVE RStrip(_)
RStrip(s) ==
  IF s # <<>> /\ IsSpace(s[Len(s)]) THEN RStrip(SubSeq(s, 1, Len(s) - 1)) ELSE s

\* str.strip()
Strip(s) == RStrip(LStrip(s))

\* str.startswith(p)
StartsWith(s, p) == Len(s) >= Len(p) /\ SubSeq(s, 1, Len(p)) = p

\* p in s
Contains(s, p) ==
  \E i \in 1..(Len(s) - Len(p) + 1) : SubSeq(s, i, i + Len(p) - 1) = p

\* str.find(c): index of the first occurrence, 0 when there is none
\* (Python's -1).
Find(s, c) ==
  IF \E i \in 1..Len(s) : s[i] = c
  THEN CHOOSE i \in 1..Len(s) : s[i] = c /\ \A j \in 1..(i - 1) : s[j] # c
  ELSE 0

\* str.splitlines(keepends=True): each segment keeps its line terminator.
RECURSIVE SplitLines(_)
SplitLines(s) ==
  IF s = <<>> THEN <<>>
  ELSE LET n == Find(s, "\n") IN
       IF n = 0 THEN <<s>>
       ELSE <<SubSeq(s, 1, n)>> \o SplitLines(SubSeq(s, n + 1, Len(s)))

\* str.lower() on a fragment.
LowerFrag(c) ==
  CASE c = "SCHEMATIC.MOVE_COMPONENT" -> "schematic.move_component"
    [] c = "Schematic.Place_Component" -> "schematic.place_component"
    [] c = "What" -> "what"
    [] OTHER -> c

\* Lower leaving the case as it is.
LowerKeepsCase(s) == s

Lower(s) == [i \in 1..Len(s) |-> LowerFrag(s[i])]

\* "".join(segments)
RECURSIVE Join(_)
Join(segs) == IF segs = <<>> THEN <<>> ELSE Head(segs) \o Join(Tail(segs))

----------------------------------------------------------------------------
(* json.loads on a tool-call payload.  A payload is one fragment, or an   *)
(* object written member by member; the result records whether it parses,  *)
(* whether it is an object, and the JSON type of the fields symbol, x and  *)
(* y ("missing" when absent).                                              *)

NoPayload == [ok |-> FALSE, isObj |-> FALSE,
              symbol |-> "missing", x |-> "missing", y |-> "missing"]

ObjPayload(s, x, y) == [ok |-> TRUE, isObj |-> TRUE, symbol |-> s, x |-> x, y |-> y]

\* A payload written member by member: "{", then key and value fragments
\* separated by ",", then "}".
JsonKeys == {"\"symbol\":", "\"x\":", "\"y\":"}

\* The JSON type of a value fragment.
JsonTypeOf(v) ==
  CASE v = "\"R1\"" -> "string"
    [] v \in {"1", "1.5"} -> "number"
    [] v \in {"true", "false"} -> "bool"
    [] v = "null" -> "null"
    [] v = "[1]" -> "array"
    [] v = "{\"a\":1}" -> "object"
    [] OTHER -> "invalid"

RECURSIVE WellFormedMembers(_)
WellFormedMembers(m) ==
  /\ Len(m) >= 2
  /\ m[1] \in JsonKeys
  /\ JsonTypeOf(m[2]) # "invalid"
  /\ \/ Len(m) = 2
     \/ /\ Len(m) > 3
        /\ m[3] = ","
        /\ WellFormedMembers(SubSeq(m, 4, Len(m)))

\* The type of the value of a key in a parsed object: the last occurrence
\* of a repeated key wins.
FieldType(m, key) ==
  LET at == { i \in 1..Len(m) : m[i] = key } IN
  IF at = {} THEN "missing"
  ELSE JsonTypeOf(m[(CHOOSE i \in at : \A j \in at : j <= i) + 1])

JsonLoadsObject(json_str) ==
  LET m == SubSeq(json_str, 2, Len(json_str) - 1) IN
  IF /\ Len(json_str) >= 2
     /\ json_str[1] = "{"
     /\ json_str[Len(json_str)] = "}"
     /\ (m = <<>> \/ WellFormedMembers(m))
  THEN ObjPayload(FieldType(m, "\"symbol\":"), FieldType(m, "\"x\":"),
                  FieldType(m, "\"y\":"))
  ELSE NoPayload

JsonLoadsPayload(json_str) ==
  IF Len(json_str) # 1 THEN JsonLoadsObject(json_str)
  ELSE CASE json_str[1] = "{}" -> ObjPayload("missing", "missing", "missing")
         [] json_str[1] = "{\"symbol\":\"R1\",\"x\":1,\"y\":2}"
              -> ObjPayload("string", "number", "number")
         [] json_str[1] = "{\"symbol\":\"R1\"}"
              -> ObjPayload("string", "missing", "missing")
         [] json_str[1] \in {"[]", "5", "null"} -> [NoPayload EXCEPT !.ok = TRUE]
         [] OTHER -> NoPayload

\* isinstance(v, str)
IsStr(t) == t = "string"

\* isinstance(v, (int, float)): bool is a subclass of int in Python.
IsNumber(t) == t \in {"number", "bool"}

----------------------------------------------------------------------------
(* validate_tool_call *)

\* The tool name of a result whose second component is None.
NoName == <<>>

Invalid(tool_name, payload) ==
  [valid |-> FALSE, tool_name |-> tool_name, payload |-> payload,
   raised |-> FALSE]

ExceptHandlersMissing(exc, tool_name) ==
  [valid |-> FALSE, tool_name |-> tool_name, payload |-> NoPayload,
   raised |-> TRUE]

\* except json.JSONDecodeError / except Exception
ExceptHandlers(exc, tool_name) == Invalid(tool_name, NoPayload)

validate_tool_call(line0) ==
  LET line == Strip(line0) IN
  IF ~StartsWith(line, TOOL_PREFIX) THEN Invalid(NoName, NoPayload)
  ELSE
  LET rest == Strip(SubSeq(line, Len(TOOL_PREFIX) + 1, Len(line))) IN
  IF rest = <<>> THEN Invalid(NoName, NoPayload)
  ELSE
  LET space_idx == Find(rest, " ") IN
  IF space_idx = 0 THEN Invalid(NoName, NoPayload)
  ELSE
  LET tool_name == Strip(SubSeq(rest, 1, space_idx - 1))
      json_str == Strip(SubSeq(rest, space_idx, Len(rest)))
      normalized_tool == Lower(tool_name)
      payload == JsonLoadsPayload(json_str)
  IN
  IF tool_name = <<>> \/ json_str = <<>> THEN Invalid(tool_name, NoPayload)
  ELSE IF normalized_tool \notin SUPPORTED_TOOL_NAMES THEN Invalid(tool_name, NoPayload)
  ELSE IF ~payload.ok THEN ExceptHandlers("JSONDecodeError", tool_name)
  ELSE IF ~payload.isObj THEN Invalid(tool_name, NoPayload)
  ELSE IF normalized_tool = <<"schematic.place_component">>
          /\ (\/ "missing" \in {payload.symbol, payload.x, payload.y}
              \/ ~IsStr(payload.symbol)
              \/ ~IsNumber(payload.x)
              \/ ~IsNumber(payload.y))
       THEN Invalid(tool_name, payload)
  ELSE [valid |-> TRUE, tool_name |-> tool_name, payload |-> payload,
        raised |-> FALSE]

----------------------------------------------------------------------------
(* sanitize_tool_lines *)

\* KeepSegment dropping every TOOL line, valid or not.
KeepSegmentDropsToolLines(segment) == ~StartsWith(Strip(segment), TOOL_PREFIX)

\* A segment is kept unless it is a TOOL line that fails validation.
KeepSegment(segment) ==
  LET stripped == Strip(segment) IN
  ~StartsWith(stripped, TOOL_PREFIX) \/ validate_tool_call(stripped).valid

sanitize_tool_lines(text) ==
  IF ~Contains(text, TOOL_PREFIX) THEN text
  ELSE Join(SelectSeq(SplitLines(text), KeepSegment))

----------------------------------------------------------------------------
(* Lines of the backend's streaming reply.                                 *)
(*   kind "blank"   : only whitespace                                      *)
(*   kind "garbage" : not valid JSON                                       *)
(*   kind "nonobj"  : valid JSON that is not an object (e.g. 5)            *)
(*   kind "obj"     : a JSON object; tk / rk tell whether the key          *)
(*                    thinking / response is absent, a string or a number, *)
(*                    t / r hold the string value                          *)
(*   kind "error"   : {"error": ...}, produced by the proxy only           *)

Line(kind, tk, t, rk, r, done) ==
  [kind |-> kind, tk |-> tk, t |-> t, rk |-> rk, r |-> r, done |-> done]

Obj(tk, t, rk, r, done) == Line("obj", tk, t, rk, r, done)

Thinking(t, done) == Obj("str", t, "absent", <<>>, done)

Answer(r, done) == Obj("absent", <<>>, "str", r, done)

BlankLine == Line("blank", "absent", <<>>, "absent", <<>>, FALSE)

GarbageLine == Line("garbage", "absent", <<>>, "absent", <<>>, FALSE)

NonObjectLine == Line("nonobj", "absent", <<>>, "absent", <<>>, FALSE)

ErrorUnit == Line("error", "absent", <<>>, "absent", <<>>, FALSE)

BadToolLine == TOOL_PREFIX \o <<"unknown.tool", " ", "{}", "\n">>

GoodToolLine == TOOL_PREFIX \o <<"SCHEMATIC.MOVE_COMPONENT", " ", "{}", "\n">>

\* The lines the backend may send: reasoning and answer text, whole and
\* split tool-call lines, terminal units, and malformed lines.
BackendLines ==
  { Thinking(<<"step">>, FALSE),
    Thinking(<<"step">>, TRUE),
    Thinking(BadToolLine, FALSE),
    Answer(<<"answer">>, FALSE),
    Answer(<<"answer">>, TRUE),
    Answer(<<>>, FALSE),
    Answer(<<"TO">>, FALSE),
    Answer(SubSeq(BadToolLine, 2, Len(BadToolLine)), FALSE),
    Answer(SubSeq(GoodToolLine, 2, Len(GoodToolLine)), FALSE),
    Answer(BadToolLine, FALSE),
    Answer(GoodToolLine \o <<"answer">>, FALSE),
    Obj("str", <<"step">>, "str", <<"answer">>, FALSE),
    Obj("absent", <<>>, "absent", <<>>, TRUE),
    Obj("num", <<>>, "absent", <<>>, FALSE),
    Obj("absent", <<>>, "num", <<>>, FALSE),
    BlankLine, GarbageLine, NonObjectLine }

----------------------------------------------------------------------------
(* One iteration of the loop of generate_stream, lines 832-867: the        *)
(* transformation of a parsed unit.  The state threaded through the steps  *)
(* is the chunk, the two locals of the generator and whether an exception  *)
(* other than JSONDecodeError / KeyError has been raised.                  *)

LoopState(chunk, open, full, raised) ==
  [chunk_json |-> chunk, thinking_open |-> open,
   full_response_text |-> full, raised |-> raised]

\* ThinkingStep without the "if not thinking_open" test of line 840.
ThinkingStepAlwaysOpens(s) ==
  IF s.raised \/ s.chunk_json.tk = "absent" THEN s
  ELSE IF s.chunk_json.tk # "str" THEN [s EXCEPT !.raised = TRUE]
  ELSE LET sanitized_thinking == sanitize_tool_lines(s.chunk_json.t) IN
       IF sanitized_thinking # <<>>
       THEN [s EXCEPT !.chunk_json.t = <<THINK_TAG_START>> \o sanitized_thinking,
                      !.thinking_open = TRUE]
       ELSE [s EXCEPT !.chunk_json.tk = "absent", !.chunk_json.t = <<>>]

\* Lines 836-845: if "thinking" in chunk_json.  sanitize_tool_lines raises
\* TypeError on a number.
ThinkingStep(s) ==
  IF s.raised \/ s.chunk_json.tk = "absent" THEN s
  ELSE IF s.chunk_json.tk # "str" THEN [s EXCEPT !.raised = TRUE]
  ELSE LET sanitized_thinking == sanitize_tool_lines(s.chunk_json.t) IN
       IF sanitized_thinking # <<>>
       THEN IF ~s.thinking_open
            THEN [s EXCEPT !.chunk_json.t = <<THINK_TAG_START>> \o sanitized_thinking,
                           !.thinking_open = TRUE]
            ELSE [s EXCEPT !.chunk_json.t = sanitized_thinking]
       ELSE [s EXCEPT !.chunk_json.tk = "absent", !.chunk_json.t = <<>>]

\* ResponseStep buffering the client copy (with the close marker) instead of
\* sanitized_response at line 859.
ResponseStepBuffersClientCopy(s) ==
  IF s.raised \/ s.chunk_json.rk = "absent" THEN s
  ELSE IF s.chunk_json.rk # "str" THEN [s EXCEPT !.raised = TRUE]
  ELSE LET sanitized_response == sanitize_tool_lines(s.chunk_json.r)
           close == sanitized_response # <<>> /\ s.thinking_open
           client_response == IF close THEN <<THINK_TAG_END>> \o sanitized_response
                              ELSE sanitized_response
       IN [s EXCEPT !.chunk_json.r = client_response,
                    !.thinking_open = IF close THEN FALSE ELSE @,
                    !.full_response_text = @ \o client_response]

\* Lines 848-859: if "response" in chunk_json.
ResponseStep(s) ==
  IF s.raised \/ s.chunk_json.rk = "absent" THEN s
  ELSE IF s.chunk_json.rk # "str" THEN [s EXCEPT !.raised = TRUE]
  ELSE LET sanitized_response == sanitize_tool_lines(s.chunk_json.r)
           close == sanitized_response # <<>> /\ s.thinking_open
           client_response == IF close THEN <<THINK_TAG_END>> \o sanitized_response
                              ELSE sanitized_response
       IN [s EXCEPT !.chunk_json.r = client_response,
                    !.thinking_open = IF close THEN FALSE ELSE @,
                    !.full_response_text = @ \o sanitized_response]

\* DoneStep placing the close marker in the answer field whether or not
\* the unit carries reasoning text.
DoneStepMarksAnswer(s) ==
  IF s.raised \/ ~(s.chunk_json.done /\ s.thinking_open) THEN s
  ELSE [s EXCEPT !.chunk_json.rk = "str",
                 !.chunk_json.r = <<THINK_TAG_END>> \o @,
                 !.thinking_open = FALSE]

\* Lines 861-867: force-close at the terminal unit.
DoneStep(s) ==
  IF s.raised \/ ~(s.chunk_json.done /\ s.thinking_open) THEN s
  ELSE IF s.chunk_json.tk = "str" /\ s.chunk_json.t # <<>>
       THEN [s EXCEPT !.chunk_json.t = @ \o <<THINK_TAG_END>>,
                      !.thinking_open = FALSE]
       ELSE [s EXCEPT !.chunk_json.rk = "str",
                      !.chunk_json.r = <<THINK_TAG_END>> \o @,
                      !.thinking_open = FALSE]

\* Line 833: json.loads(line) raises JSONDecodeError exactly on a line that
\* is not JSON.
JsonDecodeError(line) == line.kind = "garbage"

\* Lines 833-867 for one stripped, non-empty line.  A JSON value that is not
\* an object raises TypeError / AttributeError at line 836 or 861.
SanitizeUnit(line, open, full) ==
  IF JsonDecodeError(line) THEN LoopState(line, open, full, FALSE)
  ELSE IF line.kind # "obj" THEN LoopState(line, open, full, TRUE)
  ELSE DoneStep(ResponseStep(ThinkingStep(LoopState(line, open, full, FALSE))))

\* ShouldPersist without the test of the done flag.
ShouldPersistEveryUnit(line) == line.kind = "obj"

\* Line 871: if chunk_json.get("done", False).
ShouldPersist(line) == line.kind = "obj" /\ line.done

\* Line 879: yield line + "\n".
Yield(stream, line) == Append(stream, line)

\* YieldsErrorUnit without the separate handler for ChunkedEncodingError.
YieldsErrorUnitAlways(exc) == TRUE

\* Lines 881-889: ChunkedEncodingError ends the stream silently, any other
\* exception appends one error unit.
YieldsErrorUnit(exc) == exc # "ChunkedEncodingError"

OnException(stream, exc) ==
  IF YieldsErrorUnit(exc) THEN Yield(stream, ErrorUnit) ELSE stream

\* Lines 890-895: "if ollama_response:" is Response.__bool__, which is
\* Response.ok (status below 400).
FinallyResponse(resp, ok) == IF resp = "open" /\ ok THEN "closed" ELSE resp

\* Lines 896-900: "if stream_session:".
FinallySession(sess) == IF sess = "open" THEN "closed" ELSE sess

\* AgentOrchestrator.process_response -> MemoryManager.add_message.
AddMessage(mem, role, content) == Append(mem, [role |-> role, content |-> content])

----------------------------------------------------------------------------
(* The streaming request *)

StreamInit ==
  /\ pc = "start"
  /\ endKind = "none"
  /\ recvd = <<>>
  /\ out = <<>>
  /\ thinking_open = FALSE
  /\ full_response_text = <<>>
  /\ memory = <<>>
  /\ ollama_response = "None"
  /\ status_ok = FALSE
  /\ stream_session = "None"

\* No call of get_embedding, chunk_text, validate_tool_call or
\* augment_prompt is in progress.
NoCall == [pc |-> "idle"]

Init ==
  /\ StreamInit
  /\ emb = NoCall
  /\ chk = NoCall
  /\ val = NoCall
  /\ rag = NoCall
  /\ conc = NoCall
  /\ san = NoCall
  /\ plan = NoCall
  /\ vdb = NoCall /\ gen = NoCall /\ ens = NoCall

\* The generator leaves through an exception handler and the finally block.
Abort(exc) ==
  /\ pc' = "ended"
  /\ endKind' = exc
  /\ out' = OnException(out, exc)
  /\ ollama_response' = FinallyResponse(ollama_response, status_ok)
  /\ stream_session' = FinallySession(stream_session)

\* Lines 814-821, the backend accepts the request with a success status.
PostOk ==
  /\ UNCHANGED callVars
  /\ pc = "start"
  /\ pc' = "streaming"
  /\ stream_session' = "open"
  /\ ollama_response' = "open"
  /\ status_ok' = TRUE
  /\ UNCHANGED <<endKind, recvd, out, thinking_open, full_response_text, memory>>

\* Lines 814-821, the backend answers with an error status:
\* raise_for_status raises HTTPError.
PostHttpError ==
  /\ UNCHANGED callVars
  /\ pc = "start"
  /\ pc' = "ended"
  /\ endKind' = "HTTPError"
  /\ out' = OnException(out, "HTTPError")
  /\ status_ok' = FALSE
  /\ ollama_response' = FinallyResponse("open", FALSE)
  /\ stream_session' = FinallySession("open")
  /\ UNCHANGED <<recvd, thinking_open, full_response_text, memory>>

\* Lines 814-820, the request itself fails: no response object exists.
PostConnectionError ==
  /\ UNCHANGED callVars
  /\ pc = "start"
  /\ pc' = "ended"
  /\ endKind' = "ConnectionError"
  /\ out' = OnException(out, "ConnectionError")
  /\ ollama_response' = FinallyResponse(ollama_response, status_ok)
  /\ stream_session' = FinallySession("open")
  /\ UNCHANGED <<recvd, thinking_open, full_response_text, memory, status_ok>>

\* Lines 823-831: a line that is empty after strip() is skipped.
SkipBlank ==
  /\ UNCHANGED callVars
  /\ pc = "streaming"
  /\ Len(recvd) < MaxUnits
  /\ recvd' = Append(recvd, BlankLine)
  /\ UNCHANGED <<pc, endKind, out, thinking_open, full_response_text, memory,
                 ollama_response, status_ok, stream_session>>

\* Lines 823-879: one line is read, transformed and yielded; at a terminal
\* unit the buffered answer is persisted first.  storeOk is whether
\* MemoryManager.add_message succeeds.
ProcessLineFrom(lines) ==
  /\ UNCHANGED callVars
  /\ pc = "streaming"
  /\ Len(recvd) < MaxUnits
  /\ \E line \in lines, storeOk \in BOOLEAN :
       LET s == SanitizeUnit(line, thinking_open, full_response_text)
           persist == ~s.raised /\ ~JsonDecodeError(line) /\ ShouldPersist(s.chunk_json)
       IN
       /\ recvd' = Append(recvd, line)
       /\ thinking_open' = s.thinking_open
       /\ full_response_text' = s.full_response_text
       /\ IF s.raised
          THEN Abort("TypeError") /\ UNCHANGED memory
          ELSE IF persist /\ ~storeOk
          THEN Abort("StorageError") /\ UNCHANGED memory
          ELSE /\ memory' = IF persist
                            THEN AddMessage(memory, "assistant", s.full_response_text)
                            ELSE memory
               /\ out' = Yield(out, s.chunk_json)
               /\ UNCHANGED <<pc, endKind, ollama_response, stream_session>>
       /\ UNCHANGED status_ok

ProcessLine == ProcessLineFrom(BackendLines \ {BlankLine})

\* Line 823: the backend's reply ends; the loop and the generator finish.
EndOfStream ==
  /\ UNCHANGED callVars
  /\ pc = "streaming"
  /\ pc' = "ended"
  /\ endKind' = "eof"
  /\ ollama_response' = FinallyResponse(ollama_response, status_ok)
  /\ stream_session' = FinallySession(stream_session)
  /\ UNCHANGED <<recvd, out, thinking_open, full_response_text, memory, status_ok>>

\* Line 823: iter_lines raises while reading from the backend.
UpstreamFailure ==
  /\ UNCHANGED callVars
  /\ pc = "streaming"
  /\ \E exc \in {"ChunkedEncodingError", "ConnectionError"} : Abort(exc)
  /\ UNCHANGED <<recvd, thinking_open, full_response_text, memory, status_ok>>

\* The client goes away while the generator is suspended at line 879:
\* GeneratorExit is raised there and only the finally block runs.
ClientDisconnect ==
  /\ UNCHANGED callVars
  /\ pc = "streaming"
  /\ out # <<>>
  /\ recvd[Len(recvd)].kind # "blank"
  /\ pc' = "ended"
  /\ endKind' = "disconnect"
  /\ ollama_response' = FinallyResponse(ollama_response, status_ok)
  /\ stream_session' = FinallySession(stream_session)
  /\ UNCHANGED <<recvd, out, thinking_open, full_response_text, memory, status_ok>>

Next ==
  \/ PostOk
  \/ PostHttpError
  \/ PostConnectionError
  \/ SkipBlank
  \/ ProcessLine
  \/ EndOfStream
  \/ UpstreamFailure
  \/ ClientDisconnect

Spec == Init /\ [][Next]_vars

----------------------------------------------------------------------------
(* Observations of the streams used by the properties *)

IsMarker(c) == c \in {THINK_TAG_START, THINK_TAG_END}

NotMarker(c) == ~IsMarker(c)

IsOpenMarker(c) == c = THINK_TAG_START

IsCloseMarker(c) == c = THINK_TAG_END

\* The boundary markers of a stream in emission order (within a unit the
\* reasoning field is written before the answer field).
RECURSIVE MarkerTrace(_)
MarkerTrace(stream) ==
  IF stream = <<>> THEN <<>>
  ELSE SelectSeq(Head(stream).t, IsMarker) \o SelectSeq(Head(stream).r, IsMarker)
       \o MarkerTrace(Tail(stream))

OpenCount(stream) == Len(SelectSeq(MarkerTrace(stream), IsOpenMarker))

CloseCount(stream) == Len(SelectSeq(MarkerTrace(stream), IsCloseMarker))

\* The concatenation of the answer text of a stream.
RECURSIVE AnswerText(_)
AnswerText(stream) ==
  IF stream = <<>> THEN <<>> ELSE Head(stream).r \o AnswerText(Tail(stream))

\* The concatenation of the reasoning text of a stream.
RECURSIVE ReasoningText(_)
ReasoningText(stream) ==
  IF stream = <<>> THEN <<>> ELSE Head(stream).t \o ReasoningText(Tail(stream))

IsErrorUnit(line) == line.kind = "error"

NotErrorUnit(line) == ~IsErrorUnit(line)

NotBlank(line) == line.kind # "blank"

\* The units received: the lines that are non-empty after strip().
Units == SelectSeq(recvd, NotBlank)

\* The lines emitted for units (everything but a final error unit).
Emitted == SelectSeq(out, NotErrorUnit)

IsDoneUnit(line) == line.kind = "obj" /\ line.done

\* A line that is not a structured record with string fields.
Malformed(line) ==
  line.kind \in {"garbage", "nonobj"} \/ line.tk = "num" \/ line.rk = "num"

\* The sanitized reasoning / answer text of a received unit.
SanitizedThinkingOf(line) ==
  IF line.kind = "obj" /\ line.tk = "str" THEN sanitize_tool_lines(line.t) ELSE <<>>

SanitizedResponseOf(line) ==
  IF line.kind = "obj" /\ line.rk = "str" THEN sanitize_tool_lines(line.r) ELSE <<>>

RECURSIVE SanitizedAnswers(_)
SanitizedAnswers(lines) ==
  IF lines = <<>> THEN <<>>
  ELSE SanitizedResponseOf(Head(lines)) \o SanitizedAnswers(Tail(lines))

----------------------------------------------------------------------------
(* Properties *)

\* C1: at every point of the emitted stream the boundary markers alternate,
\* starting with an open marker: an open marker is emitted only while no
\* reasoning span is open and a close marker only while one is open; while
\* the stream runs, thinking_open tells whether the last marker was an open.
MarkersAlternate ==
  LET m == MarkerTrace(out) IN
  /\ \A i \in 1..Len(m) :
       m[i] = IF i % 2 = 1 THEN THINK_TAG_START ELSE THINK_TAG_END
  /\ pc = "streaming" => (thinking_open <=> Len(m) % 2 = 1)

\* C1 witness: a span was opened, closed, and a second span opened.
SecondSpanOpened == Len(MarkerTrace(out)) >= 3

\* C2: when the client-visible stream has ended, whether the backend
\* finished its reply, closed the connection or failed, as many close markers
\* as open markers have been emitted.
MarkersBalancedAtEnd ==
  (pc = "ended" /\ endKind \in {"eof", "ChunkedEncodingError", "ConnectionError"})
    => OpenCount(out) = CloseCount(out)

\* A line of text that is a tool call rejected by validate_tool_call.
InvalidToolLine(segment) ==
  StartsWith(Strip(segment), TOOL_PREFIX) /\ ~validate_tool_call(segment).valid

\* The complete lines of a text; the last one counts once the stream ended.
CompleteLines(text) ==
  LET segs == SplitLines(text) IN
  { segs[i] : i \in { j \in 1..Len(segs) :
                        segs[j][Len(segs[j])] = "\n" \/ pc = "ended" } }

\* C3: the concatenation of the emitted answer text, and of the emitted
\* reasoning text, contains no line that starts with "TOOL " and fails
\* validate_tool_call, however the text is divided into units.
NoInvalidToolLineEmitted ==
  \A segment \in CompleteLines(AnswerText(out)) \cup CompleteLines(ReasoningText(out)) :
    ~InvalidToolLine(segment)

\* The emitted line o is the transformation of the received unit u: a line
\* that is not a structured record is passed through, a record keeps its
\* done flag and carries the sanitized text of its fields, markers aside.
IsTransformOf(o, u) ==
  IF Malformed(u) THEN o = u
  ELSE /\ o.kind = "obj"
       /\ o.done = u.done
       /\ SelectSeq(o.t, NotMarker) = SanitizedThinkingOf(u)
       /\ SelectSeq(o.r, NotMarker) = SanitizedResponseOf(u)
       /\ o.tk = "str" <=> SanitizedThinkingOf(u) # <<>>
       /\ u.rk = "str" => o.rk = "str"

\* C4: for every non-empty line received exactly one line is emitted, and
\* the i-th emitted line is the transformation of the i-th received line.
FramingPreserved ==
  /\ Len(Emitted) = Len(Units)
  /\ \A i \in 1..Len(Units) : IsTransformOf(Emitted[i], Units[i])

\* A sequence of well-formed units whose last unit, and no other, is done.
EndsInDone(u) ==
  /\ u # <<>>
  /\ \A i \in 1..Len(u) : ~Malformed(u[i]) /\ (u[i].done <=> i = Len(u))

\* A reasoning span is open when the reasoning (answer) field of unit i is
\* reached: some reasoning text came before it with no answer text between.
SpanOpenAtThinking(u, i) ==
  \E j \in 1..(i - 1) :
    /\ SanitizedThinkingOf(u[j]) # <<>>
    /\ \A k \in j..(i - 1) : SanitizedResponseOf(u[k]) = <<>>

SpanOpenAtResponse(u, i) ==
  SanitizedThinkingOf(u[i]) # <<>> \/ SpanOpenAtThinking(u, i)

\* C5: for a unit sequence ending in done, the open marker prefixes the
\* first non-empty reasoning text of each span and no later one, the close
\* marker immediately precedes the first following non-empty answer text,
\* and each span gets exactly one pair of markers.  em(i) is what was
\* emitted for unit i (a line without text when nothing was).
OneMarkerPairPerSpan ==
  LET u == Units
      em(i) == IF i <= Len(Emitted) THEN Emitted[i] ELSE ErrorUnit
      opens(i) == Len(SelectSeq(em(i).t \o em(i).r, IsOpenMarker))
      closes(i) == Len(SelectSeq(em(i).t \o em(i).r, IsCloseMarker))
      st(i) == SanitizedThinkingOf(u[i])
      sr(i) == SanitizedResponseOf(u[i])
  IN
  EndsInDone(u) =>
    \A i \in 1..Len(u) :
      /\ IF st(i) # <<>> /\ ~SpanOpenAtThinking(u, i)
         THEN opens(i) = 1 /\ Head(em(i).t) = THINK_TAG_START
         ELSE opens(i) = 0
      /\ (sr(i) # <<>> /\ SpanOpenAtResponse(u, i))
           => em(i).r = <<THINK_TAG_END>> \o sr(i)
      /\ closes(i) = IF SpanOpenAtResponse(u, i) /\ (sr(i) # <<>> \/ u[i].done)
                     THEN 1 ELSE 0

\* C6: a unit that is not a structured record is emitted unmodified and does
\* not abort the stream: no error unit is produced for it.
MalformedPassThrough ==
  \A i \in 1..Len(Units) :
    Malformed(Units[i]) => i <= Len(out) /\ out[i] = Units[i]

\* C7: an assistant message is persisted only for a stream in which a done
\* unit was processed: there are never more persisted messages than done
\* units received, so none before the first one.
DoneUnitsReceived == { i \in 1..Len(recvd) : IsDoneUnit(recvd[i]) }

PersistOnlyAfterDone == Len(memory) <= Cardinality(DoneUnitsReceived)

\* C7 witness: the client left a stream that had buffered answer text and no
\* done unit, and nothing was persisted.
DisconnectWithPartialBuffer ==
  /\ pc = "ended" /\ endKind = "disconnect"
  /\ full_response_text # <<>>
  /\ DoneUnitsReceived = {}
  /\ memory = <<>>

\* C8: the j-th persisted message is an assistant message whose text is the
\* concatenation, in arrival order, of the sanitized answer text of the
\* units up to and including the j-th done unit, and holds no marker.
PersistedIsSanitizedAnswer ==
  \A j \in 1..Len(memory) :
    \E k \in DoneUnitsReceived :
      /\ Cardinality({ d \in DoneUnitsReceived : d <= k }) = j
      /\ memory[j].role = "assistant"
      /\ memory[j].content = SanitizedAnswers(SubSeq(recvd, 1, k))
      /\ SelectSeq(memory[j].content, IsMarker) = <<>>

\* C8 witness: a close marker was prefixed to an emitted answer and a
\* non-empty answer was persisted.
PersistedAfterCloseMarker ==
  /\ memory # <<>>
  /\ memory[1].content # <<>>
  /\ \E i \in 1..Len(out) : out[i].r # <<>> /\ Head(out[i].r) = THINK_TAG_END

\* C9: once the request to the backend has been made, the upstream response
\* and its session are both closed when the generator has finished.
ResourcesClosedOnExit ==
  (pc = "ended" /\ ollama_response # "None")
    => (ollama_response = "closed" /\ stream_session = "closed")

\* C10: a stream that ends because the backend closed the connection
\* (ChunkedEncodingError) carries no error unit; a stream that ends by any
\* other failure carries exactly one error unit, as its last unit.
ErrorUnits == { i \in 1..Len(out) : IsErrorUnit(out[i]) }

TerminationClassified ==
  /\ (pc = "ended" /\ endKind = "ChunkedEncodingError") => ErrorUnits = {}
  /\ (pc = "ended"
      /\ endKind \in {"ConnectionError", "HTTPError", "TypeError", "StorageError"})
       => (ErrorUnits = {Len(out)} /\ out # <<>>)

\* C10 witness: the connection failed after a unit had been emitted.
ConnectionErrorMidStream ==
  /\ pc = "ended" /\ endKind = "ConnectionError"
  /\ Len(out) >= 2
  /\ ErrorUnits = {Len(out)}

\* C11: when add_message raises while the assistant message is stored at a
\* done unit, the client still receives every unit the model produced,
\* the done unit included, and receives no error unit.
StorageFailureTolerated ==
  endKind = "StorageError"
    => /\ ErrorUnits = {}
       /\ Len(Emitted) = Len(Units)
       /\ Emitted # <<>> /\ Emitted[Len(Emitted)].done

----------------------------------------------------------------------------
\* EmbeddingService.get_embedding

\* The number of network calls the backend's answers are scripted for.
ScriptLen == 3

max_retries == 2

\* What the backend does with one network call: a 200 answer with a body,
\* an HTTP error status (raise_for_status raises HTTPError), a timeout, a
\* connection failure, or a 200 answer whose body is not JSON.
Body(format, vec) ==
  [kind |-> "body", status |-> 200, format |-> format, vec |-> vec]

HttpStatus(status) ==
  [kind |-> "HTTPError", status |-> status, format |-> "none", vec |-> <<>>]

Failure(exc) ==
  [kind |-> exc, status |-> 0, format |-> "none", vec |-> <<>>]

Outcomes ==
  { Body(f, <<1, 2>>) : f \in {"embeddings", "embedding", "data"} }
    \cup { Body("embeddings", <<>>), Body("none", <<>>) }
    \cup { HttpStatus(st) : st \in {400, 404, 500, 502, 503} }
    \cup { Failure(exc) : exc \in {"Timeout", "ConnectionError", "ValueError"} }

Scripts == [1..ScriptLen -> Outcomes]

\* The value a call returns, or that it raised.
Vector(vec) == [kind |-> "vector", vec |-> vec]

Unavailable == [kind |-> "None", vec |-> <<>>]

Pending == [kind |-> "pending", vec |-> <<>>]

Raised == [kind |-> "raised", vec |-> <<>>]

\* What one iteration of the retry loop decides.
Return(value) == [ctl |-> "return", value |-> value, slept |-> FALSE]

Continue(slept) == [ctl |-> "continue", value |-> Pending, slept |-> slept]

Raise == [ctl |-> "raise", value |-> Raised, slept |-> FALSE]

\* TimeoutFor without the shorter timeout of the retry.
TimeoutForFirst(attempt) == IF attempt = 0 THEN 60 ELSE 60

TimeoutFor(attempt) == IF attempt = 0 THEN 60 ELSE 30

\* The body of a 200 answer: the first format that is present decides.
ParseEmbedding(data) ==
  IF data.format \in {"embeddings", "embedding", "data"} /\ Len(data.vec) > 0
  THEN Return(Vector(data.vec))
  ELSE Return(Unavailable)

CanRetryNever(attempt) == FALSE

CanRetry(attempt) == attempt < max_retries - 1

OnHTTPError(status_code, attempt) ==
  IF status_code = 404 THEN Return(Unavailable)
  ELSE IF status_code = 500
       THEN IF CanRetry(attempt) THEN Continue(TRUE) ELSE Return(Unavailable)
       ELSE Return(Unavailable)

OnTimeout(attempt) ==
  IF CanRetry(attempt) THEN Continue(FALSE) ELSE Return(Unavailable)

OnOtherExceptionUncaught(exc) == Raise

OnOtherException(exc) == Return(Unavailable)

\* One iteration of the loop, given what the backend did with its call.
Attempt(outcome, attempt) ==
  CASE outcome.kind = "body" -> ParseEmbedding(outcome)
    [] outcome.kind = "HTTPError" -> OnHTTPError(outcome.status, attempt)
    [] outcome.kind = "Timeout" -> OnTimeout(attempt)
    [] OTHER -> OnOtherException(outcome.kind)

EmbCall ==
  \E script \in Scripts :
    emb = [pc |-> "running", script |-> script, attempt |-> 0, calls |-> 0,
           timeouts |-> <<>>, sleeps |-> 0, result |-> Pending]

\* One iteration of `for attempt in range(max_retries)`: one network call
\* and the handling of its outcome.
GetEmbeddingAttempt ==
  /\ UNCHANGED <<streamVars, chk, val, rag, conc, san, plan, vdb, gen, ens>>
  /\ emb.pc = "running"
  /\ emb.calls < Len(emb.script)
  /\ LET outcome == emb.script[emb.calls + 1]
         a == Attempt(outcome, emb.attempt)
         exhausted == ~(emb.attempt + 1 < max_retries)
     IN emb' = [emb EXCEPT
                  !.calls = @ + 1,
                  !.timeouts = Append(@, TimeoutFor(emb.attempt)),
                  !.sleeps = IF a.slept THEN @ + 1 ELSE @,
                  !.attempt = IF a.ctl = "continue" THEN @ + 1 ELSE @,
                  !.pc = IF a.ctl = "continue" /\ ~exhausted
                         THEN "running" ELSE "returned",
                  !.result = IF a.ctl = "continue"
                             THEN (IF exhausted THEN Unavailable ELSE Pending)
                             ELSE a.value]

EmbNext == GetEmbeddingAttempt

\* A call in progress performs its next attempt: every network call has a
\* timeout, so each attempt ends.
InitEmb ==
  /\ StreamInit /\ EmbCall /\ chk = NoCall /\ val = NoCall /\ rag = NoCall
  /\ conc = NoCall /\ san = NoCall /\ plan = NoCall /\ vdb = NoCall /\ gen = NoCall /\ ens = NoCall

SpecEmbed ==
  /\ InitEmb
  /\ [][EmbNext]_vars
  /\ WF_vars(GetEmbeddingAttempt)

AllStatus(st) == \A i \in 1..ScriptLen : emb.script[i] = HttpStatus(st)

\* C12: against a backend that always answers 404, get_embedding makes
\* exactly one network call and returns unavailable; against a backend that
\* always answers 500 it makes exactly two calls and returns unavailable.
NotFoundOnceServerErrorTwice ==
  emb.pc = "returned"
    => /\ AllStatus(404) => (emb.calls = 1 /\ emb.result = Unavailable)
       /\ AllStatus(500) => (emb.calls = 2 /\ emb.result = Unavailable)

\* C12 witness: the call returned against the backend that always answers
\* 500, after a second call.
ServerErrorTwiceReturned ==
  emb.pc = "returned" /\ AllStatus(500) /\ emb.calls = 2

\* C13: whatever the backend answers, get_embedding makes at most 2 network
\* calls, returns a non-empty vector or unavailable and never raises, and
\* every call terminates.
EmbeddingBoundedAndTotal ==
  /\ [](emb.calls <= 2)
  /\ [](emb.pc = "returned"
          => \/ emb.result = Unavailable
             \/ emb.result.kind = "vector" /\ Len(emb.result.vec) > 0)
  /\ <>(emb.pc = "returned")

\* C13 witness: the call returned a vector from its second network call.
VectorFromSecondCall ==
  emb.pc = "returned" /\ emb.calls = 2 /\ emb.result.kind = "vector"

\* C14: whatever 5xx status the backend answers to the first call,
\* get_embedding makes a second call before it returns.
ServerErrorRetriedOnce ==
  (/\ emb.pc = "returned"
   /\ emb.script[1].kind = "HTTPError"
   /\ emb.script[1].status >= 500)
    => emb.calls = 2

----------------------------------------------------------------------------
\* TextChunker.chunk_text

MaxTextLen == 4

MaxChunkSize == 3

\* The loop is followed for at most this many chunks.
MaxChunks == MaxTextLen + 2

Texts == UNION { [1..n -> {"a", "b"}] : n \in 0..MaxTextLen }

Min(a, b) == IF a < b THEN a ELSE b

Max(a, b) == IF a > b THEN a ELSE b

\* seq[a:b] of Python: a negative index counts from the end, and both
\* indices are clipped to the sequence.
PyIndex(n, i) == IF i < 0 THEN Max(n + i, 0) ELSE Min(i, n)

PySliceInclusive(seq, a, b) ==
  SubSeq(seq, PyIndex(Len(seq), a) + 1, PyIndex(Len(seq), b + 1))

PySlice(seq, a, b) ==
  SubSeq(seq, PyIndex(Len(seq), a) + 1, PyIndex(Len(seq), b))

\* The tokenizer: a lossless encoding in which a token covers one or more
\* characters (here the pair "ab" is one token).
RECURSIVE encode(_)
encode(text) ==
  IF text = <<>> THEN <<>>
  ELSE IF Len(text) >= 2 /\ text[1] = "a" /\ text[2] = "b"
       THEN <<"ab">> \o encode(SubSeq(text, 3, Len(text)))
       ELSE <<text[1]>> \o encode(Tail(text))

RECURSIVE decode(_)
decode(tokens) ==
  IF tokens = <<>> THEN <<>>
  ELSE (IF Head(tokens) = "ab" THEN <<"a", "b">> ELSE <<Head(tokens)>>)
         \o decode(Tail(tokens))

\* The units the loop walks over, and the text of a slice of them.
UnitsOf(encoding, text) == IF encoding = "None" THEN text ELSE encode(text)

ChunkOf(encoding, slice) == IF encoding = "None" THEN slice ELSE decode(slice)

NextStartOffByOne(end, chunk_overlap) == end - chunk_overlap - 1

NextStart(end, chunk_overlap) == end - chunk_overlap

\* Break without the test of the end index.
BreakAlways(end, units) == TRUE

\* Lines 154 and 170: if end >= len(...): break.
Break(end, units) == end >= Len(units)

ChunkCall ==
  \E text \in Texts, encoding \in {"None", "cl100k_base"},
     chunk_size \in 1..MaxChunkSize, chunk_overlap \in 0..MaxChunkSize :
    chk = [pc |-> "loop", text |-> text, encoding |-> encoding,
           chunk_size |-> chunk_size, chunk_overlap |-> chunk_overlap,
           units |-> UnitsOf(encoding, text), start |-> 0, chunks |-> <<>>]

\* One iteration of the while loop.
ChunkIteration ==
  /\ UNCHANGED <<streamVars, emb, val, rag, conc, san, plan, vdb, gen, ens>>
  /\ chk.pc = "loop"
  /\ Len(chk.chunks) < MaxChunks
  /\ chk.start < Len(chk.units)
  /\ LET end == chk.start + chk.chunk_size
         chunk == ChunkOf(chk.encoding, PySlice(chk.units, chk.start, end))
     IN chk' = [chk EXCEPT
                  !.chunks = Append(@, chunk),
                  !.pc = IF Break(end, chk.units) THEN "done" ELSE "loop",
                  !.start = IF Break(end, chk.units)
                            THEN @ ELSE NextStart(end, chk.chunk_overlap)]

\* The loop condition is false: the chunks are returned.
ChunkLoopExit ==
  /\ UNCHANGED <<streamVars, emb, val, rag, conc, san, plan, vdb, gen, ens>>
  /\ chk.pc = "loop"
  /\ ~(chk.start < Len(chk.units))
  /\ chk' = [chk EXCEPT !.pc = "done"]

ChunkNext == ChunkIteration \/ ChunkLoopExit

\* A call in progress executes its next iteration.
InitChunk ==
  /\ StreamInit /\ ChunkCall /\ emb = NoCall /\ val = NoCall /\ rag = NoCall
  /\ conc = NoCall /\ san = NoCall /\ plan = NoCall /\ vdb = NoCall /\ gen = NoCall /\ ens = NoCall

SpecChunk ==
  /\ InitChunk
  /\ [][ChunkNext]_vars
  /\ WF_vars(ChunkNext)

\* The first s - o units of every chunk but the last, then the last chunk.
RECURSIVE Reconstruct(_, _)
Reconstruct(chunks, keep) ==
  IF chunks = <<>> THEN <<>>
  ELSE IF Len(chunks) = 1 THEN chunks[1]
  ELSE SubSeq(chunks[1], 1, keep) \o Reconstruct(Tail(chunks), keep)

\* C15: in character mode with 0 <= o < s, every returned chunk but the
\* last has length s, the last is non-empty, and the first s - o characters
\* of each non-final chunk followed by the final chunk are the text.
ChunksReconstructText ==
  (/\ chk.pc = "done"
   /\ chk.encoding = "None"
   /\ chk.chunk_overlap < chk.chunk_size)
    => LET n == Len(chk.chunks)
       IN /\ \A i \in 1..(n - 1) : Len(chk.chunks[i]) = chk.chunk_size
          /\ n > 0 => chk.chunks[n] # <<>>
          /\ Reconstruct(chk.chunks, chk.chunk_size - chk.chunk_overlap)
               = chk.text

\* C15 witness: a text was returned in three or more overlapping chunks.
OverlappingChunksReturned ==
  /\ chk.pc = "done" /\ chk.encoding = "None"
  /\ 0 < chk.chunk_overlap /\ chk.chunk_overlap < chk.chunk_size
  /\ Len(chk.chunks) >= 3

\* C16: whenever overlap < size the start index strictly increases from
\* one iteration to the next, and the call returns.
ChunkingTerminates ==
  /\ [][chk.chunk_overlap < chk.chunk_size /\ chk'.pc = "loop"
          => chk'.start > chk.start]_vars
  /\ (chk.chunk_overlap < chk.chunk_size) => <>(chk.pc = "done")

\* C16 witness: a call with overlap < size is in its third iteration.
ThirdIteration ==
  /\ chk.pc = "loop" /\ chk.chunk_overlap < chk.chunk_size
  /\ Len(chk.chunks) = 2

----------------------------------------------------------------------------
\* Calls of validate_tool_call

JsonTypes == {"string", "number", "bool", "null", "array", "object"}

\* A value of each JSON type.
ValueOf(t) ==
  CASE t = "string" -> "\"R1\""
    [] t = "number" -> "1.5"
    [] t = "bool" -> "true"
    [] t = "null" -> "null"
    [] t = "array" -> "[1]"
    [] t = "object" -> "{\"a\":1}"

Member(key, t) == IF t = "missing" THEN <<>> ELSE <<key, ValueOf(t)>>

Comma(a, b) == IF a = <<>> \/ b = <<>> THEN a \o b ELSE a \o <<",">> \o b

\* The text of an object whose fields symbol, x and y have the given types.
ObjectText(st, xt, yt) ==
  <<"{">>
    \o Comma(Member("\"symbol\":", st),
             Comma(Member("\"x\":", xt), Member("\"y\":", yt)))
    \o <<"}">>

ObjectTexts ==
  { ObjectText(st, xt, yt) : st \in JsonTypes \cup {"missing"},
                             xt \in JsonTypes \cup {"missing"},
                             yt \in JsonTypes \cup {"missing"} }

PayloadTexts ==
  ObjectTexts
    \cup { <<"{}">>, <<"[]">>, <<"5">>, <<"null">>, <<"{oops">>,
           <<"{\"symbol\":\"R1\",\"x\":1,\"y\":2}">>,
           <<"{", "\"x\":", "1", ",", "}">>,
           <<"{", "\"x\":", "1", ",", "\"x\":", "true", "}">>,
           <<"{", "\"x\":", "1">> }

ToolNames ==
  { "schematic.place_component", "Schematic.Place_Component",
    "schematic.move_component", "SCHEMATIC.MOVE_COMPONENT",
    "mock.selection_inspector", "unknown.tool" }

\* The lines validate_tool_call is called with.
ToolLines ==
  { lead \o prefix \o <<name>> \o sep \o payload \o <<"\n">> :
      lead \in {<<>>, <<" ">>},
      prefix \in {TOOL_PREFIX, <<"TO", "OL">>},
      name \in ToolNames,
      sep \in {<<" ">>, <<"\t">>},
      payload \in PayloadTexts }
    \cup { <<>>, <<"hello">>, TOOL_PREFIX, TOOL_PREFIX \o <<" ", "\n">>,
           TOOL_PREFIX \o <<"schematic.move_component">>,
           TOOL_PREFIX \o <<"schematic.move_component", " ">> }

ValCall ==
  \E line \in ToolLines :
    val = [pc |-> "called", line |-> line, result |-> Invalid(NoName, NoPayload)]

ValidateToolCall ==
  /\ UNCHANGED <<streamVars, emb, chk, rag, conc, san, plan, vdb, gen, ens>>
  /\ val.pc = "called"
  /\ val' = [val EXCEPT !.pc = "returned",
                        !.result = validate_tool_call(val.line)]

ValNext == ValidateToolCall

InitVal ==
  /\ StreamInit /\ ValCall /\ emb = NoCall /\ chk = NoCall /\ rag = NoCall
  /\ conc = NoCall /\ san = NoCall /\ plan = NoCall /\ vdb = NoCall /\ gen = NoCall /\ ens = NoCall

SpecValidate ==
  /\ InitVal
  /\ [][ValNext]_vars

\* C17: every call returns one result and never raises: the result is
\* valid with the tool name and the parsed object, or it is invalid.
ValidateToolCallTotal ==
  val.pc = "returned"
    => /\ ~val.result.raised
       /\ val.result.valid \in BOOLEAN
       /\ val.result.valid
            => (val.result.tool_name # NoName /\ val.result.payload.isObj)

\* C17 witness: a call was rejected because its payload is malformed JSON.
MalformedJsonRejected ==
  /\ val.pc = "returned"
  /\ val.line = TOOL_PREFIX \o <<"schematic.move_component", " ", "{oops", "\n">>
  /\ ~val.result.valid /\ ~val.result.raised

\* The line `TOOL schematic.place_component <payload>`.
PlaceComponentLine(payload) ==
  TOOL_PREFIX \o <<"schematic.place_component", " ">> \o payload \o <<"\n">>

\* C18: a place_component line is valid exactly when its payload is a JSON
\* object whose symbol is a string and whose x and y are numbers.
PlaceComponentSchema ==
  \A st, xt, yt \in JsonTypes \cup {"missing"} :
    (val.pc = "returned" /\ val.line = PlaceComponentLine(ObjectText(st, xt, yt)))
      => (val.result.valid
            <=> (st = "string" /\ xt = "number" /\ yt = "number"))

----------------------------------------------------------------------------
\* RAGRetriever.retrieve_context and RAGRetriever.augment_prompt

\* The number of results the vector index returns, and the number of
\* messages stored for the session.
MaxResults == 2

MaxStored == 11

Prompts == { <<>>, <<"hi">>, <<"TOOL", " ", "x", "\n">> }

SessionIds == { "None", "", "s1" }

\* One result of the index: its document and the source its metadata
\* names ("absent": the metadata has no source; "None": the item has no
\* metadata).
IndexResult(content, source) == [content |-> content, source |-> source]

IndexResults ==
  { IndexResult(<<"doc">>, src) : src \in {"manual.pdf", "absent", "None"} }

\* What collection.query does: it raises, or it returns results.
QueryRaises == [kind |-> "raises", results |-> <<>>]

QueryReturns(results) == [kind |-> "returns", results |-> results]

IndexOutcomes ==
  { QueryRaises }
    \cup { QueryReturns(r) :
             r \in UNION { [1..n -> IndexResults] : n \in 0..MaxResults } }

\* The messages stored for the session, oldest first.
Message(k) ==
  [role |-> IF k % 2 = 1 THEN "user" ELSE "assistant",
   content |-> <<"m", ToString(k)>>]

Stored(n) == [k \in 1..n |-> Message(k)]

\* JoinWith joining the parts last to first.
RECURSIVE JoinWithReversed(_, _)
JoinWithReversed(parts, sep) ==
  IF parts = <<>> THEN <<>>
  ELSE IF Len(parts) = 1 THEN parts[1]
  ELSE JoinWithReversed(Tail(parts), sep) \o <<sep>> \o parts[1]

\* sep.join(parts)
RECURSIVE JoinWith(_, _)
JoinWith(parts, sep) ==
  IF parts = <<>> THEN <<>>
  ELSE IF Len(parts) = 1 THEN parts[1]
  ELSE parts[1] \o <<sep>> \o JoinWith(Tail(parts), sep)

\* VectorDatabase.search: no embedding gives no results; the query's
\* exception is not caught here.
search(embedding, index) ==
  IF embedding = "None" THEN [raised |-> FALSE, results |-> <<>>]
  ELSE IF index.kind = "raises" THEN [raised |-> TRUE, results |-> <<>>]
  ELSE [raised |-> FALSE, results |-> index.results]

ContextPart(i, result) ==
  <<"\n[", ToString(i), "] Source: ",
    IF result.source = "absent" THEN "unknown" ELSE result.source, "\n">>
    \o result.content

ContextParts(results) ==
  <<<<"Relevant knowledge from knowledge base:">>>>
    \o [i \in 1..Len(results) |-> ContextPart(i, results[i])]

RetrieveExceptMissing(exc) == [raised |-> TRUE, context |-> <<>>]

\* except Exception: return ""
RetrieveExcept(exc) == [raised |-> FALSE, context |-> <<>>]

retrieve_context(embedding, index) ==
  LET s == search(embedding, index) IN
  IF s.raised THEN RetrieveExcept("query")
  ELSE IF s.results = <<>> THEN [raised |-> FALSE, context |-> <<>>]
  ELSE IF \E i \in 1..Len(s.results) : s.results[i].source = "None"
       THEN RetrieveExcept("AttributeError")
  ELSE [raised |-> FALSE, context |-> JoinWith(ContextParts(s.results), "\n")]

\* MemoryManager.get_conversation: ORDER BY timestamp ASC LIMIT limit.
get_conversation(store, limit) == SubSeq(store, 1, Min(Len(store), limit))

\* messages[-n:]
LastN(messages, n) ==
  SubSeq(messages, Max(Len(messages) - n, 0) + 1, Len(messages))

RECURSIVE MemoryLines(_)
MemoryLines(messages) ==
  IF messages = <<>> THEN <<>>
  ELSE <<Head(messages).role, ": ">> \o Head(messages).content \o <<"\n">>
         \o MemoryLines(Tail(messages))

memory_context(include_memory, session_id, store, fetchOk) ==
  IF include_memory /\ session_id \notin {"None", ""} /\ fetchOk
  THEN LET messages == get_conversation(store, 10) IN
       IF messages # <<>>
       THEN <<"\n\nRecent conversation history:\n">>
              \o MemoryLines(LastN(messages, 5))
       ELSE <<>>
  ELSE <<>>

CombineAlways(context, memctx, prompt) ==
  JoinWith((IF context # <<>> THEN <<context>> ELSE <<>>)
             \o (IF memctx # <<>> THEN <<memctx>> ELSE <<>>)
             \o <<<<"\n\nUser query: ">> \o prompt>>, "\n")

Combine(context, memctx, prompt) ==
  LET augmented_parts == (IF context # <<>> THEN <<context>> ELSE <<>>)
                           \o (IF memctx # <<>> THEN <<memctx>> ELSE <<>>)
  IN IF augmented_parts # <<>>
     THEN JoinWith(augmented_parts \o <<<<"\n\nUser query: ">> \o prompt>>,
                   "\n")
     ELSE prompt

RagCall ==
  \E prompt \in Prompts, session_id \in SessionIds,
     include_memory \in BOOLEAN, embedding \in {"vector", "None"},
     index \in IndexOutcomes, n \in 0..MaxStored, fetchOk \in BOOLEAN :
    rag = [pc |-> "called", prompt |-> prompt, session_id |-> session_id,
           include_memory |-> include_memory, embedding |-> embedding,
           index |-> index, store |-> Stored(n), fetchOk |-> fetchOk,
           raised |-> FALSE, context |-> <<>>, result |-> <<>>]

\* augment_prompt calls retrieve_context.
RetrieveContext ==
  /\ UNCHANGED <<streamVars, emb, chk, val, conc, san, plan, vdb, gen, ens>>
  /\ rag.pc = "called"
  /\ LET r == retrieve_context(rag.embedding, rag.index)
     IN rag' = [rag EXCEPT !.pc = IF r.raised THEN "returned" ELSE "retrieved",
                           !.raised = r.raised,
                           !.context = r.context]

\* augment_prompt reads the conversation and combines the parts.
AugmentPrompt ==
  /\ UNCHANGED <<streamVars, emb, chk, val, conc, san, plan, vdb, gen, ens>>
  /\ rag.pc = "retrieved"
  /\ rag' = [rag EXCEPT
               !.pc = "returned",
               !.result = Combine(rag.context,
                                  memory_context(rag.include_memory,
                                                 rag.session_id, rag.store,
                                                 rag.fetchOk),
                                  rag.prompt)]

RagNext == RetrieveContext \/ AugmentPrompt

InitRag ==
  /\ StreamInit /\ RagCall /\ emb = NoCall /\ chk = NoCall /\ val = NoCall
  /\ conc = NoCall /\ san = NoCall /\ plan = NoCall /\ vdb = NoCall /\ gen = NoCall /\ ens = NoCall

SpecRag ==
  /\ InitRag
  /\ [][RagNext]_vars

\* C19: retrieve_context never raises; it returns the empty string when
\* the query embedding is unavailable, when the index query fails and when
\* the index returns no results, and a non-empty context only comes from
\* a successful query with results.
RetrievalFailureGivesEmptyContext ==
  rag.pc # "called"
    => /\ ~rag.raised
       /\ (\/ rag.embedding = "None"
           \/ rag.index.kind = "raises"
           \/ rag.index.results = <<>>) => rag.context = <<>>
       /\ rag.context # <<>>
            => /\ rag.embedding = "vector"
               /\ rag.index.kind = "returns"
               /\ rag.index.results # <<>>

\* C19 witness: the index query failed for an available embedding and the
\* context is empty.
QueryFailedContextEmpty ==
  /\ rag.pc = "retrieved"
  /\ rag.embedding = "vector" /\ rag.index.kind = "raises"
  /\ rag.context = <<>>

\* The memory section is empty: memory is not requested, there is no
\* session id, nothing is stored, or the fetch failed.
MemorySectionEmpty ==
  \/ ~rag.include_memory
  \/ rag.session_id \in {"None", ""}
  \/ rag.store = <<>>
  \/ ~rag.fetchOk

\* C20: with an empty context and an empty memory section, augment_prompt
\* returns the prompt unchanged.
UnaugmentedPromptUnchanged ==
  (rag.pc = "returned" /\ rag.context = <<>> /\ MemorySectionEmpty)
    => rag.result = rag.prompt

\* C20 witness: the memory fetch failed for a session with stored messages,
\* nothing was retrieved, and the prompt came back as it was.
PromptReturnedAfterFetchFailure ==
  /\ rag.pc = "returned" /\ rag.context = <<>>
  /\ rag.include_memory /\ rag.session_id = "s1"
  /\ rag.store # <<>> /\ ~rag.fetchOk
  /\ rag.prompt # <<>> /\ rag.result = rag.prompt

----------------------------------------------------------------------------
\* Streaming requests served concurrently (app.run(threaded=True)): every
\* request runs its own call of generate_stream.

NumStreams == 2

MaxConcUnits == 2

Requests == 1..NumStreams

ConcLines ==
  { Thinking(<<"step">>, FALSE), Thinking(<<"step">>, TRUE),
    Answer(<<"answer">>, FALSE), Answer(<<"answer">>, TRUE) }

\* The locals of a call of generate_stream as the call starts.
FreshLocals == [thinking_open |-> FALSE, full_response_text |-> <<>>]

CellOfShared(request) == 1

\* The cell holding the locals thinking_open and full_response_text of a
\* request: they are locals of generate_stream, so every call has its own.
CellOf(request) == request

NotStarted == [pc |-> "start", hist |-> <<>>, out |-> <<>>]

ConcInit ==
  conc = [cells |-> [c \in Requests |-> FreshLocals],
          streams |-> [r \in Requests |-> NotStarted],
          memory |-> <<>>]

\* The request reaches generate_stream: its locals are initialised and the
\* backend accepts the request.
ConcStart(r) ==
  /\ conc.streams[r].pc = "start"
  /\ conc' = [conc EXCEPT !.streams[r].pc = "streaming",
                          !.cells[CellOf(r)] = FreshLocals]

\* One iteration of the loop of request r on one line of its backend.
ConcProcessLine(r) ==
  /\ conc.streams[r].pc = "streaming"
  /\ Len(conc.streams[r].hist) < MaxConcUnits
  /\ \E line \in ConcLines, storeOk \in BOOLEAN :
       \E s \in {SanitizeUnit(line, conc.cells[CellOf(r)].thinking_open,
                              conc.cells[CellOf(r)].full_response_text)} :
         \E persist \in {~s.raised /\ ~JsonDecodeError(line)
                           /\ ShouldPersist(s.chunk_json)} :
           \E failed \in {s.raised \/ (persist /\ ~storeOk)} :
             /\ (storeOk \/ persist)
             /\ conc' =
                  [conc EXCEPT
                     !.cells[CellOf(r)] =
                        [thinking_open |-> s.thinking_open,
                         full_response_text |-> s.full_response_text],
                     !.streams[r].hist =
                        Append(@, [line |-> line, storeOk |-> storeOk]),
                     !.streams[r].pc = IF failed THEN "ended" ELSE @,
                     !.streams[r].out =
                        IF s.raised THEN OnException(@, "TypeError")
                        ELSE IF failed THEN OnException(@, "StorageError")
                        ELSE Yield(@, s.chunk_json),
                     !.memory =
                        IF persist /\ ~failed
                        THEN Append(@, [session |-> r, role |-> "assistant",
                                        content |-> s.full_response_text])
                        ELSE @]

\* The backend of request r closes its stream.
ConcEndOfStream(r) ==
  /\ conc.streams[r].pc = "streaming"
  /\ conc' = [conc EXCEPT !.streams[r].pc = "ended"]

ConcStep(r) == ConcStart(r) \/ ConcProcessLine(r) \/ ConcEndOfStream(r)

ConcNext ==
  /\ UNCHANGED <<streamVars, emb, chk, val, rag, san, plan, vdb, gen, ens>>
  /\ \E r \in Requests : ConcStep(r)

InitConc ==
  /\ StreamInit /\ ConcInit
  /\ emb = NoCall /\ chk = NoCall /\ val = NoCall /\ rag = NoCall
  /\ san = NoCall /\ plan = NoCall /\ vdb = NoCall /\ gen = NoCall /\ ens = NoCall

SpecConc == InitConc /\ [][ConcNext]_vars

\* What a request's locals, output and persisted texts are when it is the
\* only request: the loop applied to its lines one after the other.
AloneStart ==
  [thinking_open |-> FALSE, full_response_text |-> <<>>, out |-> <<>>,
   persisted |-> <<>>, ended |-> FALSE]

AloneStep(a, h) ==
  LET s == SanitizeUnit(h.line, a.thinking_open, a.full_response_text)
      persist == ~s.raised /\ ~JsonDecodeError(h.line)
                   /\ ShouldPersist(s.chunk_json)
      failed == s.raised \/ (persist /\ ~h.storeOk)
  IN IF a.ended THEN a
     ELSE [thinking_open |-> s.thinking_open,
           full_response_text |-> s.full_response_text,
           out |-> IF s.raised THEN OnException(a.out, "TypeError")
                   ELSE IF failed THEN OnException(a.out, "StorageError")
                   ELSE Yield(a.out, s.chunk_json),
           persisted |-> IF persist /\ ~failed
                         THEN Append(a.persisted, s.full_response_text)
                         ELSE a.persisted,
           ended |-> failed]

RECURSIVE Alone(_)
Alone(hist) ==
  IF hist = <<>> THEN AloneStart
  ELSE AloneStep(Alone(SubSeq(hist, 1, Len(hist) - 1)), hist[Len(hist)])

\* The texts persisted for a session, in order.
RECURSIVE PersistedFor(_, _)
PersistedFor(mem, r) ==
  IF mem = <<>> THEN <<>>
  ELSE (IF Head(mem).session = r THEN <<Head(mem).content>> ELSE <<>>)
         \o PersistedFor(Tail(mem), r)

\* C21: under every interleaving of the requests' units, the thinking_open
\* flag, the response buffer, the emitted output and the persisted texts
\* of each request are what they are when the request runs alone.
StreamsIsolated ==
  \A r \in Requests :
    conc.streams[r].pc # "start"
      => LET a == Alone(conc.streams[r].hist)
             cell == conc.cells[CellOf(r)]
         IN /\ cell.thinking_open = a.thinking_open
            /\ cell.full_response_text = a.full_response_text
            /\ conc.streams[r].out = a.out
            /\ PersistedFor(conc.memory, r) = a.persisted

\* C21 witness: two requests are inside a reasoning span at the same time,
\* after two units of the first and one unit of the second.
BothInsideSpan ==
  /\ \A r \in Requests :
       /\ conc.streams[r].pc = "streaming"
       /\ conc.cells[CellOf(r)].thinking_open
  /\ Len(conc.streams[1].hist) = 2 /\ Len(conc.streams[2].hist) = 1

----------------------------------------------------------------------------
\* C22: once a unit with done = true has been processed thinking_open is
\* false; if the span was still open after the reasoning and answer steps
\* of that unit, the close marker is at the end of the unit's reasoning
\* field when that field is present and non-empty, and otherwise at the
\* front of its answer field; the unit is emitted as transformed.
DoneUnitForceCloses ==
  [][(/\ Len(recvd') = Len(recvd) + 1
      /\ IsDoneUnit(recvd'[Len(recvd')])
      /\ ~Malformed(recvd'[Len(recvd')]))
       => LET line == recvd'[Len(recvd')]
              mid == ResponseStep(ThinkingStep(
                       LoopState(line, thinking_open, full_response_text, FALSE)))
              unit == SanitizeUnit(line, thinking_open, full_response_text).chunk_json
          IN /\ thinking_open' = FALSE
             /\ unit = IF ~mid.thinking_open THEN mid.chunk_json
                       ELSE IF mid.chunk_json.tk = "str" /\ mid.chunk_json.t # <<>>
                       THEN [mid.chunk_json EXCEPT !.t = @ \o <<THINK_TAG_END>>]
                       ELSE [mid.chunk_json EXCEPT !.rk = "str",
                                                   !.r = <<THINK_TAG_END>> \o @]
             /\ (Len(out') = Len(out) + 1 /\ NotErrorUnit(out'[Len(out')]))
                  => out'[Len(out')] = unit]_vars

\* C22 witness: the only unit was {thinking: "step", done: true} and it was
\* emitted with thinking "<think>step</think>".
PartialReasoningForceClosed ==
  /\ recvd = <<Thinking(<<"step">>, TRUE)>>
  /\ out = <<Thinking(<<THINK_TAG_START, "step", THINK_TAG_END>>, TRUE)>>
  /\ ~thinking_open

----------------------------------------------------------------------------
\* Calls of sanitize_tool_lines

MaxSanLines == 3

ValidToolLine == TOOL_PREFIX \o <<"schematic.move_component", " ", "{}", "\n">>

\* The lines a text is made of, each with its terminator.
SanLines ==
  { <<"hello", "\n">>,
    <<"\n">>,
    ValidToolLine,
    <<" ">> \o ValidToolLine,
    BadToolLine,
    TOOL_PREFIX \o <<"schematic.move_component", " ", "{oops", "\n">>,
    TOOL_PREFIX \o <<"schematic.move_component", "\n">>,
    TOOL_PREFIX \o <<"\n">>,
    <<"see", " ">> \o TOOL_PREFIX \o <<"x", "\n">> }

\* The lines of a text whose last line may lack its terminator.
WithLastLine(lines, terminated) ==
  IF terminated \/ lines = <<>> THEN lines
  ELSE [lines EXCEPT ![Len(lines)] = SubSeq(@, 1, Len(@) - 1)]

SanCall ==
  \E lines \in UNION { [1..n -> SanLines] : n \in 0..MaxSanLines },
     terminated \in BOOLEAN :
    san = [pc |-> "called", lines |-> WithLastLine(lines, terminated),
           text |-> Join(WithLastLine(lines, terminated)), result |-> <<>>]

SanitizeToolLines ==
  /\ UNCHANGED <<streamVars, emb, chk, val, rag, conc, plan, vdb, gen, ens>>
  /\ san.pc = "called"
  /\ san' = [san EXCEPT !.pc = "returned",
                        !.result = sanitize_tool_lines(san.text)]

SanNext == SanitizeToolLines

InitSan ==
  /\ StreamInit /\ SanCall
  /\ emb = NoCall /\ chk = NoCall /\ val = NoCall /\ rag = NoCall
  /\ conc = NoCall /\ plan = NoCall /\ vdb = NoCall /\ gen = NoCall /\ ens = NoCall

SpecSan == InitSan /\ [][SanNext]_vars

NotInvalidToolLine(line) == ~InvalidToolLine(line)

\* C23: sanitize_tool_lines returns the text without the lines that,
\* trimmed, start with "TOOL " and fail validate_tool_call, every other
\* line as it was, in order and with its terminator; a text without
\* "TOOL " is returned unchanged.
OnlyFailingToolLinesRemoved ==
  san.pc = "returned"
    => /\ san.result = Join(SelectSeq(san.lines, NotInvalidToolLine))
       /\ ~Contains(san.text, TOOL_PREFIX) => san.result = san.text

\* C23 witness: of a valid tool line, a failing tool line and a plain line
\* without terminator, the failing one was removed and the others kept.
FailingLineRemovedBetweenKeptLines ==
  /\ san.pc = "returned"
  /\ san.lines = <<ValidToolLine, BadToolLine, <<"hello">>>>
  /\ san.result = ValidToolLine \o <<"hello">>

----------------------------------------------------------------------------
\* A streaming request whose backend sends one answer text, a line of plain
\* text and a valid tool-call line, divided into units at any places.

ModelAnswer == <<"answer", "\n">> \o ValidToolLine

\* The units that continue the text received so far.
NextParts ==
  LET n == Len(AnswerText(recvd)) IN
  { Answer(SubSeq(ModelAnswer, n + 1, j), FALSE) : j \in (n + 1)..Len(ModelAnswer) }

ProcessSplitUnit == ProcessLineFrom(NextParts)

SplitNext == PostOk \/ ProcessSplitUnit \/ EndOfStream

SpecSplit == Init /\ [][SplitNext]_vars

\* C24: once every part of the valid tool-call line has been received, the
\* emitted answer text, markers aside, contains the complete line.
SplitToolLineIntact ==
  AnswerText(recvd) = ModelAnswer
    => Contains(SelectSeq(AnswerText(out), NotMarker), ValidToolLine)

----------------------------------------------------------------------------
\* C25: a timeout of the first call is followed by exactly one more call,
\* made with a shorter timeout, and a second timeout returns unavailable;
\* a connection failure, an unreadable body or a client-error status other
\* than 404 returns unavailable after one call.
TimeoutRetriedOthersNot ==
  emb.pc = "returned"
    => /\ emb.script[1] = Failure("Timeout")
            => /\ emb.calls = 2
               /\ emb.timeouts[2] < emb.timeouts[1]
               /\ emb.script[2] = Failure("Timeout") => emb.result = Unavailable
       /\ emb.script[1] \in { Failure("ConnectionError"), Failure("ValueError"),
                              HttpStatus(400) }
            => (emb.calls = 1 /\ emb.result = Unavailable)

\* C25 witness: both calls timed out and the call returned unavailable.
TimedOutTwice ==
  /\ emb.pc = "returned" /\ emb.calls = 2
  /\ emb.script[1] = Failure("Timeout") /\ emb.script[2] = Failure("Timeout")
  /\ emb.timeouts = <<60, 30>>
  /\ emb.result = Unavailable

----------------------------------------------------------------------------
\* The payload texts that are JSON objects.
JsonObjectTexts ==
  ObjectTexts
    \cup { <<"{}">>, <<"{\"symbol\":\"R1\",\"x\":1,\"y\":2}">>,
           <<"{", "\"x\":", "1", ",", "\"x\":", "true", "}">> }

\* C26: a tool call whose name is not a supported one, whatever its case,
\* is invalid whatever its payload; a call of move_component or
\* selection_inspector is valid exactly when its payload is a JSON object.
ToolRegistration ==
  \A lead \in {<<>>, <<" ">>},
     name \in {"unknown.tool", "schematic.move_component",
               "SCHEMATIC.MOVE_COMPONENT", "mock.selection_inspector"} :
    LET head == lead \o TOOL_PREFIX \o <<name, " ">>
        payload == SubSeq(val.line, Len(head) + 1, Len(val.line) - 1)
    IN (/\ val.pc = "returned"
        /\ StartsWith(val.line, head)
        /\ val.line[Len(val.line)] = "\n")
         => IF name = "unknown.tool" THEN ~val.result.valid
            ELSE val.result.valid <=> payload \in JsonObjectTexts

\* C26 witness: `TOOL unknown.tool {}` was rejected, with its name reported.
UnknownToolRejected ==
  /\ val.pc = "returned"
  /\ val.line = BadToolLine
  /\ ~val.result.valid
  /\ val.result.tool_name = <<"unknown.tool">>

----------------------------------------------------------------------------
\* The memory section of a call: present when memory is requested, a
\* session id is given, the fetch succeeds and messages exist.
MemorySectionPresent == ~MemorySectionEmpty

\* The lines of the memory section of a result: what lies between its
\* heading and the user-query part.
MemorySectionLines ==
  LET h == Find(rag.result, "\n\nRecent conversation history:\n")
      u == Find(rag.result, "\n\nUser query: ")
  IN IF h = 0 THEN <<>> ELSE SubSeq(rag.result, h + 1, u - 2)

\* C27: when there is a context or a memory section, the result is the
\* context (if non-empty), then the memory section (if present), then the
\* part `User query: <prompt>` with the prompt as given, which is last and
\* occurs once.
AugmentedPromptOrder ==
  (rag.pc = "returned" /\ (rag.context # <<>> \/ MemorySectionPresent))
    => LET u == Find(rag.result, "\n\nUser query: ")
           before == SubSeq(rag.result, 1, u - 1)
           section == <<"\n\nRecent conversation history:\n">>
                        \o MemorySectionLines
       IN /\ u > 0
          /\ SubSeq(rag.result, u + 1, Len(rag.result)) = rag.prompt
          /\ Len(SelectSeq(rag.result,
                           LAMBDA c : c = "\n\nUser query: ")) = 1
          /\ before =
               (IF rag.context # <<>> THEN rag.context \o <<"\n">> ELSE <<>>)
                 \o (IF MemorySectionPresent THEN section \o <<"\n">> ELSE <<>>)

\* C27 witness: a result made of a context, a memory section and the user
\* query.
ContextMemoryAndQuery ==
  /\ rag.pc = "returned"
  /\ rag.context # <<>> /\ MemorySectionPresent
  /\ rag.prompt # <<>>
  /\ Head(rag.result) = "Relevant knowledge from knowledge base:"

\* C28: the memory section lists the at most 5 most recently appended
\* messages of the session, oldest first, as `<role>: <content>`.
MemorySectionIsMostRecent ==
  (rag.pc = "returned" /\ MemorySectionPresent)
    => MemorySectionLines
         = MemoryLines(SubSeq(rag.store, Max(Len(rag.store) - 5, 0) + 1,
                              Len(rag.store)))

----------------------------------------------------------------------------
\* One request of generate, from plan_action to the stored answer

PlanQueries ==
  { <<"hi">>, <<"What", " ", "now">>, <<"place", " ", "a", " ", "component">> }

\* word in query_lower
Mentions(query_lower, word) == \E i \in 1..Len(query_lower) : query_lower[i] = word

plan_action(user_query) ==
  LET query_lower == Lower(user_query) IN
  [action |-> IF Mentions(query_lower, "place") /\ Mentions(query_lower, "component")
              THEN "tool_use"
              ELSE IF \/ Mentions(query_lower, "search")
                      \/ Mentions(query_lower, "find")
                      \/ Mentions(query_lower, "what")
              THEN "search"
              ELSE "respond",
   needs_context |-> TRUE]

\* augment_prompt as a whole, for the index and the store it reads.
augment_prompt(prompt, session_id, include_memory, embedding, index, store, fetchOk) ==
  Combine(retrieve_context(embedding, index).context,
          memory_context(include_memory, session_id, store, fetchOk),
          prompt)

ExecutePlanStoresFirst == <<"add_message", "augment_prompt", "return">>

\* The statements of execute_plan in their order.
ExecutePlanOrder == <<"augment_prompt", "add_message", "return">>

NoPlan == [action |-> "none", needs_context |-> FALSE]

PlanCall ==
  \E user_query \in PlanQueries, n \in 0..MaxStored,
     embedding \in {"vector", "None"}, index \in IndexOutcomes,
     fetchOk \in BOOLEAN :
    plan = [pc |-> "received", user_query |-> user_query, session_id |-> "s1",
            store |-> Stored(n), embedding |-> embedding, index |-> index,
            fetchOk |-> fetchOk, plan |-> NoPlan, step |-> 1,
            augmented_prompt |-> <<>>]

PlanAction ==
  /\ plan.pc = "received"
  /\ plan' = [plan EXCEPT !.pc = "planned",
                          !.plan = plan_action(plan.user_query)]

\* The next statement of execute_plan; storeOk is whether add_message
\* succeeds.
ExecutePlanStep ==
  /\ plan.pc = "planned"
  /\ LET stmt == ExecutePlanOrder[plan.step] IN
     \/ /\ stmt = "augment_prompt"
        /\ plan' =
             [plan EXCEPT
                !.step = @ + 1,
                !.augmented_prompt =
                   IF plan.plan.action = "search" \/ plan.plan.needs_context
                   THEN augment_prompt(plan.user_query, plan.session_id, TRUE,
                                       plan.embedding, plan.index, plan.store,
                                       plan.fetchOk)
                   ELSE plan.user_query]
     \/ /\ stmt = "add_message"
        /\ \E storeOk \in BOOLEAN :
             plan' = IF storeOk
                     THEN [plan EXCEPT !.step = @ + 1,
                                       !.store = AddMessage(@, "user", plan.user_query)]
                     ELSE [plan EXCEPT !.pc = "failed"]
     \/ /\ stmt = "return"
        /\ plan' = [plan EXCEPT !.pc = "executed"]

\* process_response stores the answer of the request.
ProcessResponse ==
  /\ plan.pc = "executed"
  /\ \E storeOk \in BOOLEAN :
       plan' = IF storeOk
               THEN [plan EXCEPT !.pc = "answered",
                                 !.store = AddMessage(@, "assistant", <<"answer">>)]
               ELSE [plan EXCEPT !.pc = "failed"]

PlanNext ==
  /\ UNCHANGED <<streamVars, emb, chk, val, rag, conc, san, vdb, gen, ens>>
  /\ (PlanAction \/ ExecutePlanStep \/ ProcessResponse)

InitPlan ==
  /\ StreamInit /\ PlanCall
  /\ emb = NoCall /\ chk = NoCall /\ val = NoCall /\ rag = NoCall
  /\ conc = NoCall /\ san = NoCall /\ vdb = NoCall /\ gen = NoCall /\ ens = NoCall

SpecPlan == InitPlan /\ [][PlanNext]_vars

\* The messages of the request in the store.
OwnUserMessages ==
  { i \in 1..Len(plan.store) :
      plan.store[i] = [role |-> "user", content |-> plan.user_query] }

OwnAssistantMessages ==
  { i \in 1..Len(plan.store) :
      plan.store[i] = [role |-> "assistant", content |-> <<"answer">>] }

\* C29: when execute_plan has returned, the user message of the request
\* is in the store exactly once, the augmented prompt does not list it in
\* its memory section, and it precedes every assistant message of the
\* request.
UserMessageStoredAfterAugmenting ==
  plan.pc \in {"executed", "answered"}
    => /\ Cardinality(OwnUserMessages) = 1
       /\ ~Contains(plan.augmented_prompt,
                    <<"user", ": ">> \o plan.user_query \o <<"\n">>)
       /\ \A i \in OwnAssistantMessages : \E j \in OwnUserMessages : j < i

\* C29 witness: a request in a session with earlier messages was answered;
\* its prompt has a memory section, and its two messages are the last two
\* of the store.
AnsweredWithMemorySection ==
  /\ plan.pc = "answered"
  /\ Contains(plan.augmented_prompt, <<"\n\nRecent conversation history:\n">>)
  /\ Len(plan.store) - 1 \in OwnUserMessages
  /\ Len(plan.store) \in OwnAssistantMessages

----------------------------------------------------------------------------
\* VectorDatabase.add_document

MaxDocChunks == 3

\* str(uuid.uuid4())
doc_id == "doc-1"

\* The chunks chunk_text returns for a content, in order.
DocChunks(n) == [k \in 1..n |-> <<"chunk", ToString(k - 1)>>]

\* The metadata add_knowledge passes: the request's metadata, which may hold
\* the keys document_id and chunk_index, with the source set.
CallerValue(key) ==
  CASE key = "source" -> "api"
    [] key = "document_id" -> "caller-doc"
    [] key = "chunk_index" -> 99

CallerMetadata ==
  { [key \in keys |-> CallerValue(key)] :
      keys \in { {"source"} \cup given : given \in SUBSET {"document_id", "chunk_index"} } }

\* {**a, **b}: the keys of b win.
Merge(a, b) ==
  [key \in DOMAIN a \cup DOMAIN b |-> IF key \in DOMAIN b THEN b[key] ELSE a[key]]

\* f"{doc_id}_chunk_{i}"
ChunkId(doc, i) == <<doc, "_chunk_", ToString(i)>>

\* The metadata of the i-th item handed to collection.add.
chunk_metadata(metadata, i, total) ==
  Merge(metadata,
        [key \in {"chunk_index", "document_id", "total_chunks"} |->
           CASE key = "chunk_index" -> i
             [] key = "document_id" -> doc_id
             [] key = "total_chunks" -> total])

AddDocCall ==
  \E n \in 0..MaxDocChunks, metadata \in CallerMetadata :
    vdb = [pc |-> "embedding", chunks |-> DocChunks(n), metadata |-> metadata,
           i |-> 0, embeddings |-> <<>>, valid_chunks |-> <<>>,
           valid_ids |-> <<>>, collection |-> <<>>]

\* One iteration of the loop over the chunks: get_embedding returns a
\* vector or None.
EmbedChunk ==
  /\ vdb.pc = "embedding"
  /\ vdb.i < Len(vdb.chunks)
  /\ \E embedded \in BOOLEAN :
       vdb' = IF embedded
              THEN [vdb EXCEPT
                      !.i = @ + 1,
                      !.embeddings = Append(@, <<1, 2>>),
                      !.valid_chunks = Append(@, vdb.chunks[vdb.i + 1]),
                      !.valid_ids = Append(@, ChunkId(doc_id, vdb.i))]
              ELSE [vdb EXCEPT !.i = @ + 1]

\* After the loop: nothing is stored when no chunk was embedded, otherwise
\* the items are added to the collection.
AddToCollection ==
  /\ vdb.pc = "embedding"
  /\ vdb.i = Len(vdb.chunks)
  /\ vdb' =
       [vdb EXCEPT
          !.pc = "returned",
          !.collection =
             IF vdb.valid_chunks = <<>> THEN @
             ELSE [k \in 1..Len(vdb.valid_ids) |->
                     [id |-> vdb.valid_ids[k],
                      embedding |-> vdb.embeddings[k],
                      document |-> vdb.valid_chunks[k],
                      metadata |-> chunk_metadata(vdb.metadata, k - 1,
                                                  Len(vdb.chunks))]]]

AddDocNext ==
  /\ UNCHANGED <<streamVars, emb, chk, val, rag, conc, san, plan, gen, ens>>
  /\ (EmbedChunk \/ AddToCollection)

InitAddDoc ==
  /\ StreamInit /\ AddDocCall
  /\ emb = NoCall /\ chk = NoCall /\ val = NoCall /\ rag = NoCall
  /\ conc = NoCall /\ san = NoCall /\ plan = NoCall /\ gen = NoCall /\ ens = NoCall

SpecAddDoc == InitAddDoc /\ [][AddDocNext]_vars

\* C30: every stored item is, for some position i of the chunker output,
\* the chunk at i with id <doc_id>_chunk_<i>, and its metadata has that
\* doc_id as document_id and that i as chunk_index.
IndexedItemsConsistent ==
  \A k \in 1..Len(vdb.collection) :
    \E i \in 0..(Len(vdb.chunks) - 1) :
      /\ vdb.collection[k].id = ChunkId(doc_id, i)
      /\ vdb.collection[k].document = vdb.chunks[i + 1]
      /\ vdb.collection[k].metadata["document_id"] = doc_id
      /\ vdb.collection[k].metadata["chunk_index"] = i

----------------------------------------------------------------------------
\* generate: the non-streaming path and the streaming path on one reply

\* The reasoning and answer texts of a backend reply.
GenTexts ==
  { <<>>, <<"step">>, <<"\n">>, BadToolLine, BadToolLine \o <<"step">>,
    <<"hello", "\n">> \o ValidToolLine }

NoResult == [status |-> "pending", text |-> <<>>, persisted |-> <<>>]

\* ClientResponseParts wrapping the reasoning whether or not it is empty.
ClientResponsePartsAlwaysWraps(sanitized_thinking, sanitized_response) ==
  <<THINK_TAG_START>> \o sanitized_thinking \o <<THINK_TAG_END>>
    \o sanitized_response

\* Lines 924-929: "".join(client_response_parts).
ClientResponseParts(sanitized_thinking, sanitized_response) ==
  (IF sanitized_thinking # <<>>
   THEN <<THINK_TAG_START>> \o sanitized_thinking \o <<THINK_TAG_END>>
   ELSE <<>>) \o sanitized_response

\* The thinking and response text of an emitted unit, as the client
\* concatenates them.
ClientText(unit) ==
  (IF unit.tk = "str" THEN unit.t ELSE <<>>)
    \o (IF unit.rk = "str" THEN unit.r ELSE <<>>)

GenCall ==
  \E thinking \in GenTexts, response \in GenTexts, storeOk \in BOOLEAN :
    gen = [thinking |-> thinking, response |-> response, storeOk |-> storeOk,
           nonstream |-> NoResult, stream |-> NoResult]

\* Lines 913-941: the non-streaming branch on the backend's reply; an
\* exception of process_response reaches the handler of lines 943-945.
GenerateNonStreaming ==
  /\ gen.nonstream.status = "pending"
  /\ \E sanitized_response \in {sanitize_tool_lines(gen.response)},
        sanitized_thinking \in {IF gen.thinking # <<>>
                                THEN sanitize_tool_lines(gen.thinking)
                                ELSE <<>>} :
       gen' = [gen EXCEPT !.nonstream =
                 IF gen.storeOk
                 THEN [status |-> "ok",
                       text |-> ClientResponseParts(sanitized_thinking,
                                                    sanitized_response),
                       persisted |-> AddMessage(<<>>, "assistant",
                                                sanitized_response)]
                 ELSE [status |-> "error", text |-> <<>>, persisted |-> <<>>]]

\* Lines 823-889 on the single unit {thinking, response, done: true}.
GenerateStreamUnit ==
  /\ gen.stream.status = "pending"
  /\ \E s \in {SanitizeUnit(Obj("str", gen.thinking, "str", gen.response, TRUE),
                             FALSE, <<>>)} :
       gen' = [gen EXCEPT !.stream =
                 IF ShouldPersist(s.chunk_json) /\ ~gen.storeOk
                 THEN [status |-> "error", text |-> <<>>, persisted |-> <<>>]
                 ELSE [status |-> "ok",
                       text |-> ClientText(s.chunk_json),
                       persisted |-> IF ShouldPersist(s.chunk_json)
                                     THEN AddMessage(<<>>, "assistant",
                                                     s.full_response_text)
                                     ELSE <<>>]]

GenNext ==
  /\ UNCHANGED <<streamVars, emb, chk, val, rag, conc, san, plan, vdb, ens>>
  /\ (GenerateNonStreaming \/ GenerateStreamUnit)

InitGen ==
  /\ StreamInit /\ GenCall
  /\ emb = NoCall /\ chk = NoCall /\ val = NoCall /\ rag = NoCall
  /\ conc = NoCall /\ san = NoCall /\ plan = NoCall /\ vdb = NoCall
  /\ ens = NoCall

SpecGen == InitGen /\ [][GenNext]_vars

\* C31: for one backend reply the two paths of generate agree: both fail
\* or both answer, and when they answer the non-streaming response is the
\* marked sanitized reasoning (only when it is not empty) followed by the
\* sanitized answer, the streamed unit shows the same text, and both store
\* the sanitized answer without markers.
NonStreamingMatchesStreaming ==
  (gen.nonstream.status # "pending" /\ gen.stream.status # "pending") =>
    /\ gen.nonstream.status = gen.stream.status
    /\ gen.nonstream.status = "ok" =>
         /\ gen.nonstream.text =
              (IF sanitize_tool_lines(gen.thinking) # <<>>
               THEN <<THINK_TAG_START>> \o sanitize_tool_lines(gen.thinking)
                      \o <<THINK_TAG_END>>
               ELSE <<>>) \o sanitize_tool_lines(gen.response)
         /\ gen.stream.text = gen.nonstream.text
         /\ gen.nonstream.persisted =
              <<[role |-> "assistant",
                 content |-> sanitize_tool_lines(gen.response)]>>
         /\ gen.stream.persisted = gen.nonstream.persisted

\* Both paths answered a reply whose reasoning is removed whole by the
\* sanitizer and whose answer loses a tool line.
BothAnsweredSanitizedReply ==
  /\ gen.nonstream.status = "ok" /\ gen.stream.status = "ok"
  /\ gen.thinking = BadToolLine
  /\ gen.response = BadToolLine \o <<"step">>
  /\ gen.stream.text = <<"step">>

----------------------------------------------------------------------------
\* ensure_thinking_directive

MaxPromptLen == 5

MaxRequests == 2

\* The directive: a title line and the lines of its body.
THINKING_DIRECTIVE_TEXT ==
  <<"REASONING VISIBILITY DIRECTIVE", "\n", "rules", "\n">>

\* The system prompts a client may send: None, or a text made of prompt
\* text, line ends and pieces of the directive.
SystemPrompts ==
  { [is_none |-> TRUE, text |-> <<>>] } \cup
  { [is_none |-> FALSE, text |-> text] :
      text \in UNION { [1..n -> {"prompt", "\n", "rules",
                                 "REASONING VISIBILITY DIRECTIVE"}] :
                         n \in 0..MaxPromptLen } }

EndsWith(s, p) == Len(s) >= Len(p) /\ SubSeq(s, Len(s) - Len(p) + 1, Len(s)) = p

\* ensure_thinking_directive without the test of line 77.
EnsureAlwaysAppends(system_prompt) ==
  LET base_prompt == IF system_prompt.is_none THEN <<>> ELSE system_prompt.text
      separator == IF ~EndsWith(base_prompt, <<"\n">>) THEN <<"\n", "\n">>
                   ELSE <<"\n">>
  IN IF base_prompt = <<>> THEN THINKING_DIRECTIVE_TEXT
     ELSE base_prompt \o separator \o THINKING_DIRECTIVE_TEXT

\* Lines 73-84; the result is always a text.
ensure_thinking_directive(system_prompt) ==
  LET base_prompt == IF system_prompt.is_none THEN <<>> ELSE system_prompt.text
      separator == IF ~EndsWith(base_prompt, <<"\n">>) THEN <<"\n", "\n">>
                   ELSE <<"\n">>
  IN IF Contains(base_prompt, THINKING_DIRECTIVE_TEXT) THEN base_prompt
     ELSE IF base_prompt = <<>> THEN THINKING_DIRECTIVE_TEXT
     ELSE base_prompt \o separator \o THINKING_DIRECTIVE_TEXT

EnsCall ==
  \E system \in SystemPrompts : ens = [system |-> system, results |-> <<>>]

\* Line 775 of one request; the next request sends the prompt the previous
\* one produced.
EnsureThinkingDirective ==
  /\ Len(ens.results) < MaxRequests
  /\ ens' = [ens EXCEPT !.results =
               Append(@, ensure_thinking_directive(
                           IF @ = <<>> THEN ens.system
                           ELSE [is_none |-> FALSE, text |-> @[Len(@)]]))]

EnsNext ==
  /\ UNCHANGED <<streamVars, emb, chk, val, rag, conc, san, plan, vdb, gen>>
  /\ EnsureThinkingDirective

InitEns ==
  /\ StreamInit /\ EnsCall
  /\ emb = NoCall /\ chk = NoCall /\ val = NoCall /\ rag = NoCall
  /\ conc = NoCall /\ san = NoCall /\ plan = NoCall /\ vdb = NoCall
  /\ gen = NoCall

SpecEns == InitEns /\ [][EnsNext]_vars

\* C32: the result of ensure_thinking_directive contains the directive, a
\* prompt that already contains it is returned unchanged, and a request
\* sent with the result of the previous request gets the same prompt again.
DirectiveAppendedOnce ==
  /\ Len(ens.results) >= 1 =>
       /\ Contains(ens.results[1], THINKING_DIRECTIVE_TEXT)
       /\ (~ens.system.is_none
             /\ Contains(ens.system.text, THINKING_DIRECTIVE_TEXT)) =>
            ens.results[1] = ens.system.text
  /\ Len(ens.results) >= 2 => ens.results[2] = ens.results[1]

\* Two requests after a prompt that is the directive without its last line
\* end: the first appends the directive, the second changes nothing.
PartialDirectiveCompletedTwice ==
  /\ Len(ens.results) = 2
  /\ ~ens.system.is_none
  /\ ens.system.text = <<"REASONING VISIBILITY DIRECTIVE", "\n", "rules">>
  /\ Len(ens.results[2]) = 9

----------------------------------------------------------------------------
\* Assistant messages of one streaming request

IsAssistantMessage(message) == message.role = "assistant"

\* C33: at most one assistant message is persisted for a streaming request,
\* whatever lines the backend sends.
AtMostOneAssistantMessage ==
  Len(SelectSeq(memory, IsAssistantMessage)) <= 1

----------------------------------------------------------------------------
\* chunk_text with chunk_overlap >= chunk_size

\* The call's overlap is at least its chunk size and its input is longer
\* than one chunk.
OverlapNotBelowSize ==
  chk.chunk_overlap >= chk.chunk_size /\ Len(chk.units) > chk.chunk_size

\* C34: when chunk_overlap >= chunk_size and the input is longer than
\* chunk_size units, the call never returns: in every state the loop
\* condition is true and the break condition of the next iteration is
\* false, and every iteration appends a chunk and leaves the start index at
\* or below its previous value.
ChunkingNeverReturns ==
  /\ [](OverlapNotBelowSize =>
          /\ chk.pc = "loop"
          /\ chk.start < Len(chk.units)
          /\ ~Break(chk.start + chk.chunk_size, chk.units))
  /\ [][OverlapNotBelowSize =>
          /\ chk'.start <= chk.start
          /\ Len(chk'.chunks) = Len(chk.chunks) + 1]_vars

\* A call with overlap above the size has appended three chunks and its
\* start index has gone below zero.
StartIndexWentBack ==
  /\ OverlapNotBelowSize
  /\ chk.pc = "loop"
  /\ Len(chk.chunks) >= 3
  /\ chk.start < 0

====
